---- MODULE Spec2Model ----
(***************************************************************************)
(* A model of the sanitizer library (src/index.js): the predicates, the    *)
(* scalar rules, TypedArrayRule, the dotted-key utilities and              *)
(* Sanitizer.sanitizeBySpec with its instance-wide error map.              *)
(*                                                                         *)
(* JavaScript values are records [k, v]: k is the runtime kind and v the   *)
(* content.  A string is a sequence of one-character strings, a number is  *)
(* its canonical decimal writing <<integer digits, fraction digits>>, an   *)
(* array is a sequence of values and an object a function from keys to     *)
(* values.  A call that ends with a TypeError is a result with threw =     *)
(* TRUE.                                                                   *)
(***************************************************************************)
EXTENDS Integers, Sequences, FiniteSets, TLC

VARIABLES errors, objectProps, lastSpec, lastPayload, result, recorded, calls,
          roundTrip, prevResult, rule, value, ret, done

vars == <<errors, objectProps, lastSpec, lastPayload, result, recorded, calls,
          roundTrip, prevResult, rule, value, ret, done>>

sanitizerVars == <<errors, objectProps, lastSpec, lastPayload, result, recorded,
                   calls, roundTrip, prevResult>>

ruleVars == <<rule, value, ret, done>>

-----------------------------------------------------------------------------
(* JavaScript values *)

Digits == {"0", "1", "2", "3", "4", "5", "6", "7", "8", "9"}

Str(s) == [k |-> "str", v |-> s]

Num(ip, fp) == [k |-> "num", v |-> <<ip, fp>>]

Arr(s) == [k |-> "arr", v |-> s]

Obj(f) == [k |-> "obj", v |-> f]

Bool(b) == [k |-> "bool", v |-> b]

Null == [k |-> "null", v |-> 0]

Undefined == [k |-> "undef", v |-> 0]

NaN == [k |-> "nan", v |-> 0]

\* a function value, such as the methods inherited from Object.prototype
Fn == [k |-> "fn", v |-> 0]

\* the function Object, which every plain object inherits as its constructor
ObjectFn == [k |-> "fn", v |-> 1]

Zero == Num(<<"0">>, <<>>)

One == Num(<<"1">>, <<>>)

EmptyString == Str(<<>>)

EmptyObject == Obj(<<>>)

\* typeof value === 'object'
typeofObject(val) == val.k \in {"obj", "arr", "null"}

\* the values the `in` operator accepts on its right-hand side
isObjectLike(val) == val.k \in {"obj", "arr", "fn"}

\* the values that coerce to false
isFalsy(val) ==
    \/ val.k \in {"null", "undef", "nan"}
    \/ val = Bool(FALSE)
    \/ val = EmptyString
    \/ val = Zero

RECURSIVE JoinWith(_, _)
JoinWith(seqs, sep) ==
    IF seqs = <<>> THEN <<>>
    ELSE IF Len(seqs) = 1 THEN seqs[1]
    ELSE seqs[1] \o sep \o JoinWith(Tail(seqs), sep)

\* String(value), the coercion RegExp.prototype.test and parseInt apply
RECURSIVE ToStringJS(_)
ToStringJS(val) ==
    CASE val.k = "str" -> val.v
      [] val.k = "num" ->
            IF val.v[2] = <<>> THEN val.v[1] ELSE val.v[1] \o <<".">> \o val.v[2]
      [] val.k = "null" -> <<"n", "u", "l", "l">>
      [] val.k = "undef" -> <<"u", "n", "d", "e", "f", "i", "n", "e", "d">>
      [] val.k = "nan" -> <<"N", "a", "N">>
      [] val.k = "bool" ->
            IF val.v THEN <<"t", "r", "u", "e">> ELSE <<"f", "a", "l", "s", "e">>
      [] val.k = "arr" ->
            JoinWith([i \in 1..Len(val.v) |->
                         IF val.v[i].k \in {"null", "undef"} THEN <<>>
                         ELSE ToStringJS(val.v[i])], <<",">>)
      [] val.k = "obj" -> <<"[", "o", "b", "j", "e", "c", "t", "]">>
      [] OTHER -> <<"f", "n">>

AllDigits(s) == \A i \in 1..Len(s) : s[i] \in Digits

RECURSIVE TakeDigits(_)
TakeDigits(s) ==
    IF s = <<>> \/ Head(s) \notin Digits THEN <<>>
    ELSE <<Head(s)>> \o TakeDigits(Tail(s))

RECURSIVE StripLeadingZeros(_)
StripLeadingZeros(s) ==
    IF Len(s) > 1 /\ Head(s) = "0" THEN StripLeadingZeros(Tail(s)) ELSE s

RECURSIVE StripTrailingZeros(_)
StripTrailingZeros(s) ==
    IF s # <<>> /\ s[Len(s)] = "0"
    THEN StripTrailingZeros(SubSeq(s, 1, Len(s) - 1))
    ELSE s

\* the number written as the digits ip, a point and the digits fp
Number(ip, fp) ==
    IF ip = <<>> /\ fp = <<>> THEN NaN
    ELSE Num(IF ip = <<>> THEN <<"0">> ELSE StripLeadingZeros(ip),
             StripTrailingZeros(fp))

\* the digits that follow a point at position n of s
FractionAt(s, n) ==
    IF n <= Len(s) /\ s[n] = "." THEN TakeDigits(SubSeq(s, n + 1, Len(s)))
    ELSE <<>>

ParseIntString(s) == Number(TakeDigits(s), <<>>)

ParseFloatString(s) == Number(TakeDigits(s), FractionAt(s, Len(TakeDigits(s)) + 1))

\* parseInt(value, 10): the leading decimal digits of String(value)
parseInt(val) == ParseIntString(ToStringJS(val))

\* parseFloat(value): leading digits, then a point and more digits
parseFloat(val) == ParseFloatString(ToStringJS(val))

-----------------------------------------------------------------------------
(* Predicates *)

isString(val) == val.k = "str"

isInteger(val) == val.k = "num" /\ val.v[2] = <<>>

isFloat(val) == val.k = "num" /\ val.v[2] # <<>>

isArray(val) == val.k = "arr"

\* the numbers of the regular expression of isPhone
AreaLen == 3

TailMin == 7

TailMax == 10

Separators == {"-", " "}

\* /^((8|7|\+7)[\- ]?)(\(?\d{3}\)?[\- ]?)[\d\- ]{7,10}$/ on a string
PhoneRegTest(s) ==
    \E p \in {1, 2}, s1 \in {0, 1}, lp \in {0, 1}, rp \in {0, 1}, s2 \in {0, 1} :
        LET a == p + s1 + lp          \* characters before the area digits
            b == a + AreaLen + rp + s2 \* characters before the tail
        IN  /\ Len(s) >= b + TailMin
            /\ Len(s) <= b + TailMax
            /\ IF p = 1 THEN s[1] \in {"8", "7"} ELSE s[1] = "+" /\ s[2] = "7"
            /\ s1 = 1 => s[p + 1] \in Separators
            /\ lp = 1 => s[p + s1 + 1] = "("
            /\ \A i \in (a + 1)..(a + AreaLen) : s[i] \in Digits
            /\ rp = 1 => s[a + AreaLen + 1] = ")"
            /\ s2 = 1 => s[a + AreaLen + rp + 1] \in Separators
            /\ \A i \in (b + 1)..Len(s) : s[i] \in Digits \cup Separators

isPhone(val) == PhoneRegTest(ToStringJS(val))

-----------------------------------------------------------------------------
(* Error kinds *)

InvalidPayload == "InvalidPayload"

InvalidSpecRule == "InvalidSpecRule"

InvalidStructureValue == "InvalidStructureValue"

InvalidValue == "InvalidValue"

KeyDoesNotExist == "KeyDoesNotExist"

ExtraField == "ExtraField"

-----------------------------------------------------------------------------
(* Rules.  A call is [threw, val, log]: log lists the logger's calls, each  *)
(* the tuple of its arguments.                                              *)

Returned(val, log) == [threw |-> FALSE, val |-> val, log |-> log]

Thrown(log) == [threw |-> TRUE, val |-> Undefined, log |-> log]

IntegerRule(val) ==
    LET invalid == ~isInteger(val) /\ (~isString(val) \/ ~(val.v # <<>> /\ AllDigits(val.v)))
    IN  Returned(parseInt(IF invalid THEN Zero ELSE val),
                 IF invalid THEN << <<InvalidValue>> >> ELSE <<>>)

\* /^\d+\.\d+$/
FloatRegTest(s) ==
    LET ip == TakeDigits(s)
        rest == SubSeq(s, Len(ip) + 1, Len(s))
    IN  /\ ip # <<>>
        /\ Len(rest) >= 2
        /\ Head(rest) = "."
        /\ AllDigits(Tail(rest))

FloatRule(val) ==
    LET invalid == ~isFloat(val) /\ (~isString(val) \/ ~FloatRegTest(val.v))
    IN  Returned(parseFloat(IF invalid THEN Zero ELSE val),
                 IF invalid THEN << <<InvalidValue>> >> ELSE <<>>)

StringRule(val) ==
    LET invalid == ~isString(val)
    IN  Returned(IF invalid THEN EmptyString ELSE val,
                 IF invalid THEN << <<InvalidValue>> >> ELSE <<>>)

\* value.replace(/^8/, '7').replace(/\D+/g, '')
PhoneReplace(s) ==
    LET t == IF s # <<>> /\ Head(s) = "8" THEN <<"7">> \o Tail(s) ELSE s
    IN  SelectSeq(t, LAMBDA c : c \in Digits)

\* the return statement of PhoneRule.sanitize
PhoneReturn(val, log) ==
    IF isString(val) THEN Returned(Str(PhoneReplace(val.v)), log)
    ELSE Thrown(log)    \* value.replace is not a function

PhoneRule(val) ==
    IF ~isPhone(val) THEN PhoneReturn(EmptyString, << <<InvalidValue>> >>)
    ELSE PhoneReturn(val, <<>>)

ScalarRules == {"int", "float", "phone", "string"}

ScalarSanitize(name, val) ==
    CASE name = "int" -> IntegerRule(val)
      [] name = "float" -> FloatRule(val)
      [] name = "phone" -> PhoneRule(val)
      [] OTHER -> StringRule(val)

-----------------------------------------------------------------------------
(* TypedArrayRule *)

\* the indexes pushed by the callback handed to the inner rule, one per call
RECURSIVE InvalidIndexes(_, _)
InvalidIndexes(inner, i) ==
    IF i > Len(inner) THEN <<>>
    ELSE [j \in 1..Len(inner[i].log) |-> i - 1] \o InvalidIndexes(inner, i + 1)

\* what follows array.map: inner lists the calls of the inner rule
AfterMap(inner, invalidIndexes) ==
    IF \E i \in 1..Len(inner) : inner[i].threw THEN Thrown(<<>>)
    ELSE IF Len(invalidIndexes) # 0
    THEN Returned(Arr(<<>>), << <<InvalidStructureValue, invalidIndexes>> >>)
    ELSE Returned(Arr([i \in 1..Len(inner) |-> inner[i].val]), <<>>)

MapCalls(inner) == AfterMap(inner, InvalidIndexes(inner, 1))

TypedArrayRule(name, array) ==
    IF isArray(array)
    THEN MapCalls([i \in 1..Len(array.v) |-> ScalarSanitize(name, array.v[i])])
    ELSE Returned(Arr(<<>>), << <<InvalidValue, <<>> >> >>)

\* the registry of StandardSanitizer: token -> the scalar rule it applies
ArrayRules == {"int[]", "float[]", "phone[]", "string[]"}

RuleTokens == ScalarRules \cup ArrayRules

InnerRule(token) ==
    CASE token = "int[]" -> "int"
      [] token = "float[]" -> "float"
      [] token = "phone[]" -> "phone"
      [] OTHER -> "string"

\* this.rules[ruleName].sanitize(rawValue, logger)
Sanitize(token, val) ==
    IF token \in ArrayRules THEN TypedArrayRule(InnerRule(token), val)
    ELSE ScalarSanitize(token, val)

-----------------------------------------------------------------------------
(* Dotted keys.  A key is a string; an object maps keys to values.          *)

Key(c) == <<c>>

ConstructorName == <<"c", "o", "n", "s", "t", "r", "u", "c", "t", "o", "r">>

\* names every object inherits from Object.prototype (two of them)
ObjectPrototype == {<<"t", "o", "S", "t", "r", "i", "n", "g">>, ConstructorName}

\* the keys of the modelled objects, in the order the objects list them
KeyOrder == <<Key("a"), Key("b"), Key("c"), ConstructorName>>

ObjectKeys(obj) == SelectSeq(KeyOrder, LAMBDA k : k \in DOMAIN obj.v)

Put(f, k, v) == [x \in (DOMAIN f) \cup {k} |-> IF x = k THEN v ELSE f[x]]

\* key.split('.')
RECURSIVE Split(_)
Split(s) ==
    IF \A i \in 1..Len(s) : s[i] # "." THEN <<s>>
    ELSE LET i == CHOOSE j \in 1..Len(s) :
                     s[j] = "." /\ \A h \in 1..(j - 1) : s[h] # "."
         IN  <<SubSeq(s, 1, i - 1)>> \o Split(SubSeq(s, i + 1, Len(s)))

\* [pre, key].filter(v => v).join('.')
JoinPrefix(pre, key) ==
    IF pre = <<>> THEN key
    ELSE IF key = <<>> THEN pre
    ELSE pre \o <<".">> \o key

\* own holds the properties that calls have added to the function Object

\* a has c as a property of its own
HasOwn(a, c, own) ==
    \/ a.k = "obj" /\ c \in DOMAIN a.v
    \/ a = ObjectFn /\ c \in DOMAIN own

\* c in a, for a value the operator accepts: inherited names count
HasProperty(a, c, own) == HasOwn(a, c, own) \/ c \in ObjectPrototype

\* a[c] when c in a: an inherited name yields a function, and constructor on
\* a plain object yields Object
GetProperty(a, c, own) ==
    IF a.k = "obj" /\ c \in DOMAIN a.v THEN a.v[c]
    ELSE IF a = ObjectFn /\ c \in DOMAIN own THEN own[c]
    ELSE IF a.k = "obj" /\ c = ConstructorName THEN ObjectFn
    ELSE Fn

Walked(val) == [threw |-> FALSE, val |-> val]

WalkThrown == [threw |-> TRUE, val |-> Undefined]

\* reduce((a, c) => c in a ? a[c] || 1 : false, ...)
RECURSIVE KeyExistReduce(_, _, _)
KeyExistReduce(a, segs, own) ==
    IF segs = <<>> THEN Walked(a)
    ELSE IF ~isObjectLike(a) THEN WalkThrown
    ELSE KeyExistReduce(
             IF HasProperty(a, Head(segs), own)
             THEN (IF isFalsy(GetProperty(a, Head(segs), own)) THEN One
                   ELSE GetProperty(a, Head(segs), own))
             ELSE Bool(FALSE),
             Tail(segs), own)

\* Object.assign({}, object) and {...object}
ShallowCopy(object) == IF object.k = "obj" THEN object ELSE EmptyObject

isKeyExist(object, key, own) ==
    LET r == KeyExistReduce(ShallowCopy(object), Split(key), own)
    IN  IF r.threw THEN WalkThrown ELSE Walked(r.val # Bool(FALSE))

RECURSIVE GetValueReduce(_, _, _)
GetValueReduce(a, segs, own) ==
    IF segs = <<>> THEN Walked(a)
    ELSE IF ~isObjectLike(a) THEN WalkThrown
    ELSE GetValueReduce(
             IF HasProperty(a, Head(segs), own)
             THEN GetProperty(a, Head(segs), own) ELSE Null,
             Tail(segs), own)

getValueFromKey(object, key, own) ==
    GetValueReduce(ShallowCopy(object), Split(key), own)

\* the outcome of a write: the object written to, and the properties of Object
Written(val, own) == [threw |-> FALSE, val |-> val, own |-> own]

WriteThrown(own) == [threw |-> TRUE, val |-> Undefined, own |-> own]

\* a[c] = val: a property of the object, or of the function Object; what is
\* written to an array or to another function is not kept
Assigned(a, c, val, own) ==
    IF a.k = "obj" THEN Written(Obj(Put(a.v, c, val)), own)
    ELSE IF a = ObjectFn THEN Written(a, Put(own, c, val))
    ELSE Written(a, own)

\* a after the write r went through its property c: an inherited function is
\* no part of a
Through(a, c, r, own) ==
    IF HasProperty(a, c, own) /\ ~HasOwn(a, c, own) THEN Written(a, r.own)
    ELSE Assigned(a, c, r.val, r.own)

\* reduce((a, c, i, arr) => arr.length !== (i + 1)
\*     ? (c in a ? a[c] : a[c] = {}) : a[c] = value, object)
RECURSIVE SetValueReduce(_, _, _, _)
SetValueReduce(a, segs, val, own) ==
    IF ~isObjectLike(a) THEN WriteThrown(own)
    ELSE IF Len(segs) = 1 THEN Assigned(a, Head(segs), val, own)
    ELSE LET child == IF HasProperty(a, Head(segs), own)
                      THEN GetProperty(a, Head(segs), own)
                      ELSE EmptyObject
             r == SetValueReduce(child, Tail(segs), val, own)
         IN  IF r.threw THEN r ELSE Through(a, Head(segs), r, own)

setValueFromKey(object, key, val, own) ==
    SetValueReduce(object, Split(key), val, own)

-----------------------------------------------------------------------------
(* Sanitizer.toFlatObject: a flat object is the sequence of its <<key,      *)
(* value>> entries, in insertion order.                                     *)

FlatKeys(flat) == [i \in 1..Len(flat) |-> flat[i][1]]

FlatHas(flat, key) == \E i \in 1..Len(flat) : flat[i][1] = key

\* flat[key]: a flat object inherits the names of Object.prototype too
FlatGet(flat, key) ==
    IF FlatHas(flat, key)
    THEN flat[CHOOSE i \in 1..Len(flat) : flat[i][1] = key][2]
    ELSE IF key \in ObjectPrototype THEN GetProperty(EmptyObject, key, <<>>)
    ELSE Undefined

\* Object.assign(res, {[prefix]: val})
FlatAssign(flat, key, val) ==
    IF FlatHas(flat, key)
    THEN [i \in 1..Len(flat) |-> IF flat[i][1] = key THEN <<key, val>> ELSE flat[i]]
    ELSE Append(flat, <<key, val>>)

\* flat(res, key, val, pre) for the first pending <<key, val, pre>>, then the
\* pending ones after it; a nested mapping puts its entries, in key order,
\* before those (the nested reduce of flat)
RECURSIVE flat(_, _)
flat(res, pending) ==
    IF pending = <<>> THEN Walked(res)
    ELSE LET val == Head(pending)[2]
             prefix == JoinPrefix(Head(pending)[3], Head(pending)[1])
         IN  IF typeofObject(val) /\ ~isArray(val)
             THEN (IF val.k = "null" THEN WalkThrown   \* Object.keys(null)
                   ELSE flat(res, [i \in 1..Len(ObjectKeys(val)) |->
                                      <<ObjectKeys(val)[i], val.v[ObjectKeys(val)[i]],
                                        prefix>>] \o Tail(pending)))
             ELSE flat(FlatAssign(res, prefix, val), Tail(pending))

toFlatObject(object) ==
    IF object.k # "obj" THEN WalkThrown
    ELSE flat(<<>>, [i \in 1..Len(ObjectKeys(object)) |->
                        <<ObjectKeys(object)[i], object.v[ObjectKeys(object)[i]], <<>> >>])

-----------------------------------------------------------------------------
(* Sanitizer *)

IntToken == <<"i", "n", "t">>

FloatToken == <<"f", "l", "o", "a", "t">>

PhoneToken == <<"p", "h", "o", "n", "e">>

StringToken == <<"s", "t", "r", "i", "n", "g">>

ArrayOf(token) == token \o <<"[", "]">>

\* the rules of StandardSanitizer, the one Sanitizer the module exports
StandardRules ==
    (IntToken :> "int") @@ (FloatToken :> "float") @@
    (PhoneToken :> "phone") @@ (StringToken :> "string") @@
    (ArrayOf(IntToken) :> "int[]") @@ (ArrayOf(FloatToken) :> "float[]") @@
    (ArrayOf(PhoneToken) :> "phone[]") @@ (ArrayOf(StringToken) :> "string[]")

\* ruleName in this.rules: the operand is coerced to a property name, and
\* inherited names count
InRules(ruleName) ==
    ToStringJS(ruleName) \in (DOMAIN StandardRules) \cup ObjectPrototype

NoErrors == <<>>

\* this.errors[key] = error, once per call of the logger
RECURSIVE ApplyLog(_, _, _)
ApplyLog(errs, key, log) ==
    IF log = <<>> THEN errs
    ELSE ApplyLog(Put(errs, key, Head(log)[1]), key, Tail(log))

\* a call under way: by names the function whose TypeError ended it, if any;
\* own holds the properties of the function Object
CallState(by, out, errs, rec, own) ==
    [threw |-> by # "", by |-> by, out |-> out, errors |-> errs,
     recorded |-> rec, own |-> own]

Failed(st, by) == CallState(by, st.out, st.errors, st.recorded, st.own)

\* Record, were it to leave null in the output at the path it reports
RecordAndStore(st, specKey, code) ==
    CallState("", setValueFromKey(st.out, specKey, Null, st.own).val,
              Put(st.errors, specKey, code), Put(st.recorded, specKey, code),
              st.own)

\* this.errors[specKey] = code
Record(st, specKey, code) ==
    CallState("", st.out, Put(st.errors, specKey, code),
              Put(st.recorded, specKey, code), st.own)

\* setValueFromKey(sanitizedPayload, specKey, the value the rule returned)
StoreValue(st, w) ==
    IF w.threw THEN Failed(st, "setValueFromKey")
    ELSE CallState("", w.val, st.errors, st.recorded, w.own)

\* the rule's call r: its logger calls reach this.errors, its value the output
ApplyRule(st, specKey, r) ==
    IF r.threw
    THEN CallState("sanitize", st.out, ApplyLog(st.errors, specKey, r.log),
                   ApplyLog(st.recorded, specKey, r.log), st.own)
    ELSE StoreValue(CallState("", st.out, ApplyLog(st.errors, specKey, r.log),
                              ApplyLog(st.recorded, specKey, r.log), st.own),
                    setValueFromKey(st.out, specKey, r.val, st.own))

\* the branch of an existing key, ruleName being the name read from the spec
Dispatch(st, specKey, ruleName, rawValue) ==
    IF ruleName.threw THEN Failed(st, "getValueFromKey")
    ELSE IF ~InRules(ruleName.val) THEN Record(st, specKey, InvalidSpecRule)
    ELSE IF ToStringJS(ruleName.val) \notin DOMAIN StandardRules
    THEN Failed(st, "sanitizeBySpec")  \* inherited: sanitizer.sanitize is no function
    ELSE ApplyRule(st, specKey,
                   Sanitize(StandardRules[ToStringJS(ruleName.val)], rawValue))

\* the body of the loop over flatSpec, for one specKey
SpecKeyBody(st, specKey, exist, spec, flatPayload) ==
    IF exist.threw THEN Failed(st, "isKeyExist")
    ELSE IF ~exist.val THEN Record(st, specKey, KeyDoesNotExist)
    ELSE Dispatch(st, specKey, getValueFromKey(spec, specKey, st.own),
                  FlatGet(flatPayload, specKey))

SpecKeyStep(st, specKey, spec, payload, flatPayload) ==
    SpecKeyBody(st, specKey, isKeyExist(payload, specKey, st.own), spec,
                flatPayload)

RECURSIVE SpecKeyLoop(_, _, _, _, _)
SpecKeyLoop(st, specKeys, spec, payload, flatPayload) ==
    IF specKeys = <<>> \/ st.threw THEN st
    ELSE SpecKeyLoop(SpecKeyStep(st, Head(specKeys), spec, payload, flatPayload),
                     Tail(specKeys), spec, payload, flatPayload)

Range(s) == {s[i] : i \in 1..Len(s)}

\* the paths the reconciliation marks ExtraField
ExtraKeys(specKeys, payloadKeys) ==
    IF Len(specKeys) # Len(payloadKeys)
    THEN {k \in Range(payloadKeys) : k \notin Range(specKeys)}
    ELSE {}

PutAll(f, keys, v) == [x \in (DOMAIN f) \cup keys |-> IF x \in keys THEN v ELSE f[x]]

\* sanitizeBySpec once both objects are flat
Reconcile(spec, payload, errs, own, flatSpec, flatPayload, extra) ==
    SpecKeyLoop(CallState("", EmptyObject, PutAll(errs, extra, ExtraField),
                          PutAll(NoErrors, extra, ExtraField), own),
                FlatKeys(flatSpec), spec, payload, flatPayload)

Flattened(spec, payload, errs, own, flatSpec, flatPayload) ==
    IF flatSpec.threw \/ flatPayload.threw
    THEN CallState("toFlatObject", EmptyObject, errs, NoErrors, own)
    ELSE Reconcile(spec, payload, errs, own, flatSpec.val, flatPayload.val,
                   ExtraKeys(FlatKeys(flatSpec.val), FlatKeys(flatPayload.val)))

\* sanitizeBySpec(spec, payload) on a Sanitizer whose this.errors is errs
sanitizeBySpec(spec, payload, errs, own) ==
    Flattened(spec, payload, errs, own, toFlatObject(spec), toFlatObject(payload))

-----------------------------------------------------------------------------
(* Inputs *)

Obj1(k, v) == Obj(Key(k) :> v)

Obj2(k1, v1, k2, v2) == Obj((Key(k1) :> v1) @@ (Key(k2) :> v2))

\* {constructor: v}: a field named as a member of Object.prototype
ObjConstructor(v) == Obj(ConstructorName :> v)

\* strings and numbers of the repository's tests, and variations of them
S12 == Str(<<"1", "2">>)

S007 == Str(<<"0", "0", "7">>)

S1x == Str(<<"1", "x">>)

S1p0 == Str(<<"1", ".", "0">>)

S1p5 == Str(<<"1", ".", "5">>)

N5 == Num(<<"5">>, <<>>)

N1p5 == Num(<<"1">>, <<"5">>)

\* '8 (800) 5553535'
PhoneTest == Str(<<"8", " ", "(", "8", "0", "0", ")", " ", "5", "5", "5", "3", "5", "3", "5">>)

\* '8800-------'
PhoneDashes == Str(<<"8", "8", "0", "0", "-", "-", "-", "-", "-", "-", "-">>)

\* '88005553535355'
PhoneLong == Str(<<"8", "8", "0", "0", "5", "5", "5", "3", "5", "3", "5", "3", "5", "5">>)

\* the number 88005553535
PhoneNumber == Num(<<"8", "8", "0", "0", "5", "5", "5", "3", "5", "3", "5">>, <<>>)

\* spec leaves: the registered tokens, an unknown one, an inherited name, and
\* an array holding a token
Bogus == Str(<<"b", "o", "g", "u", "s">>)

ToStringName == Str(<<"t", "o", "S", "t", "r", "i", "n", "g">>)

RegisteredLeaves == {Str(t) : t \in DOMAIN StandardRules}

SpecLeaves == RegisteredLeaves \cup {Bogus, ToStringName, Arr(<<Str(IntToken)>>)}

BasicLeaves == {Str(IntToken), Str(FloatToken), Str(StringToken)}

Specs ==
    {Obj1("a", t) : t \in SpecLeaves}
    \cup {Obj2("a", t, "b", u) : t \in BasicLeaves, u \in BasicLeaves}
    \cup {Obj1("a", Obj1("b", t)) : t \in BasicLeaves \cup {Str(PhoneToken), Bogus}}
    \cup {Obj1("a", Obj2("a", Str(IntToken), "b", t)) : t \in BasicLeaves}
    \cup {ObjConstructor(Str(IntToken))}
    \cup {ObjConstructor(Obj1("a", t)) : t \in {Str(IntToken), Str(StringToken)}}

PayloadLeaves ==
    {S12, S007, S1x, S1p0, S1p5, N5, N1p5, Zero, Null, EmptyString, Bool(FALSE),
     PhoneTest, PhoneDashes, PhoneLong, PhoneNumber,
     Arr(<<>>), Arr(<<S12, N5>>), Arr(<<S12, S1x>>), Arr(<<PhoneTest>>),
     Arr(<<PhoneNumber>>)}

FewLeaves == {S12, S1x, S1p0, Zero, Null}

Payloads ==
    {EmptyObject, Obj1("a", EmptyObject)}
    \cup {Obj1("a", v) : v \in PayloadLeaves}
    \cup {Obj1("b", v) : v \in FewLeaves}
    \cup {Obj2("a", v, "b", w) : v \in FewLeaves, w \in FewLeaves}
    \cup {Obj1("a", Obj1("b", v)) : v \in PayloadLeaves}
    \cup {Obj1("a", Obj1("c", v)) : v \in FewLeaves}
    \cup {Obj1("a", Obj2("a", v, "b", w)) : v \in FewLeaves, w \in FewLeaves}
    \cup {Obj1("a", Obj2("b", v, "c", w)) : v \in FewLeaves, w \in FewLeaves}
    \cup {ObjConstructor(v) : v \in FewLeaves}
    \cup {ObjConstructor(Obj1("a", v)) : v \in FewLeaves}

\* the inputs of the runs that call the one Sanitizer again and again
SeqSpecs ==
    {Obj1("a", Str(IntToken)), Obj1("a", Bogus),
     Obj2("a", Str(IntToken), "b", Str(StringToken)),
     Obj1("a", Obj1("b", Str(IntToken))),
     ObjConstructor(Obj1("a", Str(IntToken)))}

SeqPayloads ==
    {EmptyObject, Obj1("a", S12), Obj1("a", S1x), Obj1("b", S12),
     Obj2("a", S12, "b", S12), Obj1("a", Null),
     Obj1("a", Obj1("b", S12)), Obj1("a", Obj1("b", S1x)),
     Obj1("a", Obj2("b", S12, "c", N5)),
     ObjConstructor(Obj1("a", S12))}

-----------------------------------------------------------------------------
(* The Sanitizer as a state machine.  errors is this.errors and objectProps *)
(* the properties setValueFromKey has added to the function Object; the     *)
(* other variables record the last call: its arguments, what it returned or *)
(* that it threw, and the entries it wrote to this.errors.                  *)

NoResult == [threw |-> FALSE, by |-> "", val |-> Undefined]

SanitizerInit ==
    /\ errors = NoErrors
    /\ objectProps = <<>>
    /\ lastSpec = EmptyObject
    /\ lastPayload = EmptyObject
    /\ result = NoResult
    /\ recorded = NoErrors
    /\ calls = 0
    /\ roundTrip = FALSE
    /\ prevResult = NoResult

\* no rule is called directly
RuleIdle ==
    /\ rule = "none"
    /\ value = Undefined
    /\ ret = Returned(Undefined, <<>>)
    /\ done = TRUE

Init == SanitizerInit /\ RuleIdle

Call(spec, payload) ==
    LET st == sanitizeBySpec(spec, payload, errors, objectProps)
    IN  /\ errors' = st.errors
        /\ objectProps' = st.own
        /\ lastSpec' = spec
        /\ lastPayload' = payload
        /\ result' = [threw |-> st.threw, by |-> st.by,
                      val |-> IF st.threw THEN Undefined ELSE st.out]
        /\ recorded' = st.recorded
        /\ calls' = calls + 1
        /\ prevResult' = result
        /\ UNCHANGED ruleVars

\* StandardSanitizer.sanitizeBySpec(spec, payload)
SanitizeBySpec(spec, payload) ==
    /\ Call(spec, payload)
    /\ roundTrip' = FALSE

\* StandardSanitizer.sanitizeBySpec(spec, the payload the last call returned)
Resanitize ==
    /\ calls >= 1
    /\ ~result.threw
    /\ Call(lastSpec, result.val)
    /\ roundTrip' = TRUE

MaxCalls == 2

MaxRoundTrips == 1

\* any calls, one after the other, on the one instance
Next ==
    \/ \E spec \in SeqSpecs, payload \in SeqPayloads :
           calls < MaxCalls /\ SanitizeBySpec(spec, payload)
    \/ calls < MaxCalls /\ Resanitize

Spec == Init /\ [][Next]_vars

\* a first call on the fresh instance, then its result sanitized again
FirstCall ==
    \E spec \in Specs, payload \in Payloads :
        calls = 0 /\ SanitizeBySpec(spec, payload)

CallNext ==
    \/ FirstCall
    \/ calls <= MaxRoundTrips /\ Resanitize

CallSpec == Init /\ [][CallNext]_vars

-----------------------------------------------------------------------------
(* The rules called directly, as the tests of the repository call them.     *)

PhonePrefixes == {<<"8">>, <<"7">>, <<"+", "7">>, <<"9">>, <<>>}

PhoneAreas == {<<"(", "8", "0", "0", ")">>, <<"8", "0", "0">>, <<"8", "0">>, <<"(", "8", "0", "0">>}

PhoneTails == {<<"5", "5", "5", "3", "5", "3", "5">>, <<"5", "5", "5", "-", "3", "5", "-", "3", "5">>, <<"5", "5", "5", "3", "5", "3", "5", "3", "5", "5">>, <<"-", "-", "-", "-", "-", "-", "-">>, <<"5", "5", "5", "3", "5", "3", "5", "3", "5", "5", "5">>, <<"5", "5", "5", "3", "5", "3">>}

\* strings shaped like a phone number: prefix, separator, area code, tail
PhoneStrings ==
    {Str(pre \o s1 \o area \o s2 \o tail) :
        pre \in PhonePrefixes, s1 \in {<<>>, <<" ">>}, area \in PhoneAreas,
        s2 \in {<<>>, <<"-">>}, tail \in PhoneTails}

ScalarValues ==
    {S12, S007, S1x, S1p0, S1p5, N5, N1p5, Zero, Null, Undefined, EmptyString,
     Bool(FALSE), Bool(TRUE), PhoneNumber, EmptyObject, Obj1("a", S12)}

MaxArrayLen == 2

ArrayElements == {S12, S1x, S1p5, N5, Null, PhoneTest, PhoneNumber}

Arrays == {Arr(s) : s \in UNION {[1..n -> ArrayElements] : n \in 0..MaxArrayLen}}

RuleValues == ScalarValues \cup PhoneStrings \cup Arrays

\* new IntegerRule().sanitize(value, logger), and so for the scalar rules
ScalarRuleSanitize ==
    /\ ~done
    /\ rule \in ScalarRules
    /\ ret' = ScalarSanitize(rule, value)
    /\ done' = TRUE
    /\ UNCHANGED <<rule, value, sanitizerVars>>

\* new TypedArrayRule(new IntegerRule()).sanitize(array, logger), and so on
TypedArrayRuleSanitize ==
    /\ ~done
    /\ rule \in ArrayRules
    /\ ret' = TypedArrayRule(InnerRule(rule), value)
    /\ done' = TRUE
    /\ UNCHANGED <<rule, value, sanitizerVars>>

\* a rule and a value are picked, and the rule is applied to the value
RuleInit ==
    /\ SanitizerInit
    /\ rule \in RuleTokens
    /\ value \in RuleValues
    /\ ret = Returned(Undefined, <<>>)
    /\ done = FALSE

RuleNext == ScalarRuleSanitize \/ TypedArrayRuleSanitize

RuleSpec == RuleInit /\ [][RuleNext]_vars

-----------------------------------------------------------------------------
(* Properties *)

\* the value at the end of the path segs of val, segment by segment
RECURSIVE HasPath(_, _)
HasPath(val, segs) ==
    \/ segs = <<>>
    \/ /\ val.k = "obj"
       /\ Head(segs) \in DOMAIN val.v
       /\ HasPath(val.v[Head(segs)], Tail(segs))

RECURSIVE ValueAt(_, _)
ValueAt(val, segs) ==
    IF segs = <<>> THEN val ELSE ValueAt(val.v[Head(segs)], Tail(segs))

RECURSIVE LeafValues(_)
LeafValues(val) ==
    IF val.k = "obj" THEN UNION {LeafValues(val.v[k]) : k \in DOMAIN val.v}
    ELSE {val}

Called == calls >= 1

Returns == Called /\ ~result.threw

\* the flattened paths of the last call's spec and payload
SpecPaths == Range(FlatKeys(toFlatObject(lastSpec).val))

PayloadPaths == Range(FlatKeys(toFlatObject(lastPayload).val))

RecordedAt(key, code) == key \in DOMAIN recorded /\ recorded[key] = code

OutputHas(key) == HasPath(result.val, Split(key))

\* the path key leads, segment by segment, to a value of the last payload
PayloadHas(key) == HasPath(lastPayload, Split(key))

\* C1: after a call that returns, the error report holds exactly the errors
\* that call detected; no entry of an earlier call survives in it.
C1_ReportIsLastCall == Returns => errors = recorded

\* C2: a call that returns has recorded ExtraField at every flattened payload
\* path that the flattened spec lacks, also when both have as many keys.
C2_ExtraFieldAtEveryExtraPath ==
    Returns => \A key \in PayloadPaths \ SpecPaths : RecordedAt(key, ExtraField)

\* C3 as claimed: the payload a call returns has no entry at any spec path
\* for which the call recorded an error.
C3_ErrorPathsAbsent ==
    Returns => \A key \in SpecPaths : key \in DOMAIN recorded => ~OutputHas(key)

\* the typed default of the rule the spec names at key
DefaultAt(key) ==
    LET name == StandardRules[ToStringJS(ValueAt(lastSpec, Split(key)))]
    IN  IF name \in ArrayRules THEN Arr(<<>>)
        ELSE IF name \in {"int", "float"} THEN Zero
        ELSE EmptyString

\* C3 as amended: the payload a call returns has no entry at a spec path
\* recorded KeyDoesNotExist or InvalidSpecRule; at a spec path for which a
\* rule reported InvalidValue or InvalidStructureValue the error removes
\* nothing: the entry the payload has there is the rule's typed default (0,
\* '' or []).
C3_ErrorPathsAbsentOrDefaulted ==
    Returns =>
        \A key \in SpecPaths :
            /\ (RecordedAt(key, KeyDoesNotExist) \/ RecordedAt(key, InvalidSpecRule))
                   => ~OutputHas(key)
            /\ (RecordedAt(key, InvalidValue) \/ RecordedAt(key, InvalidStructureValue))
                   => (OutputHas(key) => ValueAt(result.val, Split(key)) = DefaultAt(key))

\* a returned call with the typed default in the output at a nested path
\* after InvalidValue, and another path left out after KeyDoesNotExist
C3_Witness ==
    /\ Returns
    /\ \E key \in SpecPaths :
           /\ RecordedAt(key, InvalidValue)
           /\ Len(Split(key)) > 1
           /\ OutputHas(key)
           /\ ValueAt(result.val, Split(key)) = DefaultAt(key)
    /\ \E key \in SpecPaths : RecordedAt(key, KeyDoesNotExist) /\ ~OutputHas(key)

\* C4: a call whose spec leaves are registered tokens and whose payload
\* leaves are strings, numbers, arrays or null, nested in mappings in any
\* way, does not throw.
C4_NeverThrowsOnDataShape ==
    (/\ Called
     /\ LeafValues(lastSpec) \subseteq RegisteredLeaves
     /\ \A leaf \in LeafValues(lastPayload) : leaf.k \in {"str", "num", "arr", "null"})
        => ~result.threw

\* the inputs section 4.2 of the spec calls valid for each scalar rule
ValidFor(name, val) ==
    CASE name = "int" -> isInteger(val) \/ (isString(val) /\ val.v # <<>> /\ AllDigits(val.v))
      [] name = "float" -> isFloat(val) \/ (isString(val) /\ FloatRegTest(val.v))
      [] name = "string" -> isString(val)
      [] OTHER -> isPhone(val)

DefaultOf(name) == IF name \in {"int", "float"} THEN Zero ELSE EmptyString

\* C5: a scalar rule returns for every value and never throws; on an invalid
\* value it calls onError once, with InvalidValue, and returns its typed
\* default; on a valid value it does not call onError.
C5_ScalarRuleReportsOnce ==
    (done /\ rule \in ScalarRules) =>
        /\ ~ret.threw
        /\ IF ValidFor(rule, value) THEN ret.log = <<>>
           ELSE ret.log = << <<InvalidValue>> >> /\ ret.val = DefaultOf(rule)

\* C6: sanitizing the payload a call returned, against the same spec, returns
\* an identical payload and detects no error; stated for the returned
\* payloads that hold every path of the spec, float leaves and defaulted
\* values included.
C6_RoundTripIdempotent ==
    (roundTrip /\ \A key \in SpecPaths : PayloadHas(key)) =>
        /\ ~result.threw
        /\ result.val = prevResult.val
        /\ recorded = NoErrors

\* the indexes (from 0) of the elements for which the inner rule calls onError
FailingIndexes(name, array) ==
    SelectSeq([i \in 1..Len(array) |-> i - 1],
              LAMBDA j : ScalarSanitize(name, array[j + 1]).log # <<>>)

\* C7: TypedArrayRule.sanitize reports InvalidValue with an empty index list
\* and returns [] for a value that is no array; for an array with failing
\* elements it reports InvalidStructureValue once, with exactly the failing
\* indexes in ascending order, and returns []; otherwise it reports nothing
\* and returns the inner rule's results, in order.
C7_TypedArrayAllOrNothing ==
    (done /\ rule \in ArrayRules) =>
        IF ~isArray(value)
        THEN ret = Returned(Arr(<<>>), << <<InvalidValue, <<>> >> >>)
        ELSE IF FailingIndexes(InnerRule(rule), value.v) # <<>>
        THEN ret = Returned(Arr(<<>>),
                            << <<InvalidStructureValue,
                                 FailingIndexes(InnerRule(rule), value.v)>> >>)
        ELSE /\ ~ret.threw
             /\ ret.log = <<>>
             /\ ret.val = Arr([i \in 1..Len(value.v) |->
                                  ScalarSanitize(InnerRule(rule), value.v[i]).val])

\* C8: a call (set aside those that flattening, a rule or the rule lookup ends
\* with a TypeError) records KeyDoesNotExist at a spec path, and writes no
\* entry for it, exactly when the path is absent from the payload; a path with
\* a missing segment is reported, a falsy value that is present is not.
C8_KeyDoesNotExistIffAbsent ==
    (Called /\ result.by \in {"", "isKeyExist"}) =>
        /\ ~result.threw
        /\ \A key \in SpecPaths :
               (RecordedAt(key, KeyDoesNotExist) /\ ~OutputHas(key)) <=> ~PayloadHas(key)

\* C9: at a spec path that exists in the payload and whose spec leaf is no
\* registered token, a call (set aside those that flattening or isKeyExist
\* ends with a TypeError) does not crash, records InvalidSpecRule and writes
\* no entry: only a registered token is dispatched to a rule.
C9_UnregisteredLeafIsReported ==
    (Called /\ result.by \notin {"toFlatObject", "isKeyExist"}) =>
        \A key \in SpecPaths :
            (PayloadHas(key) /\ ValueAt(lastSpec, Split(key)) \notin RegisteredLeaves)
                => /\ ~result.threw
                   /\ RecordedAt(key, InvalidSpecRule)
                   /\ ~OutputHas(key)

\* C10: for a string isPhone accepts, PhoneRule.sanitize reports nothing and
\* returns a string of exactly 11 digits that begins with 7.
C10_PhoneIsElevenDigits ==
    (done /\ rule = "phone" /\ isString(value) /\ isPhone(value)) =>
        /\ ~ret.threw
        /\ ret.log = <<>>
        /\ isString(ret.val)
        /\ AllDigits(ret.val.v)
        /\ Len(ret.val.v) = 11
        /\ ret.val.v[1] = "7"

\* the rule the last call's spec names at the path key
RuleAt(key) == StandardRules[ValueAt(lastSpec, Split(key)).v]

\* the values section 4.2 of the spec calls valid for the rule token
ValidLeaf(token, val) ==
    IF token \in ArrayRules
    THEN /\ isArray(val)
         /\ \A i \in 1..Len(val.v) :
                ValidFor(InnerRule(token), val.v[i])
                    /\ (InnerRule(token) = "phone" => isString(val.v[i]))
    ELSE ValidFor(token, val) /\ (token = "phone" => isString(val))

\* the last call is the first one on the Sanitizer; every leaf of its spec is
\* a registered token, its payload has the spec's flattened paths and every
\* leaf of the payload is valid for the rule at its path
ValidFirstCall ==
    /\ calls = 1
    /\ ~roundTrip
    /\ result.by # "toFlatObject"
    /\ LeafValues(lastSpec) \subseteq RegisteredLeaves
    /\ PayloadPaths = SpecPaths
    /\ \A key \in SpecPaths :
           /\ PayloadHas(key)
           /\ ValidLeaf(RuleAt(key), ValueAt(lastPayload, Split(key)))

\* the flattened paths of the payload the last call returned
OutputPaths == Range(FlatKeys(toFlatObject(result.val).val))

\* C11: the first call on a Sanitizer, with a spec of registered tokens and a
\* payload that has exactly the spec's flattened paths and a valid leaf at
\* each, returns a nested mapping with exactly the spec's paths, each holding
\* what its rule makes of the payload's leaf, and leaves the error report
\* empty.
C11_ValidPayloadIsCoerced ==
    ValidFirstCall =>
        /\ ~result.threw
        /\ errors = NoErrors
        /\ OutputPaths = SpecPaths
        /\ \A key \in SpecPaths :
               /\ OutputHas(key)
               /\ ValueAt(result.val, Split(key))
                      = Sanitize(RuleAt(key), ValueAt(lastPayload, Split(key))).val

====
